---- MODULE Spec2Model ----
(***************************************************************************)
(* A model of pysaber.py: the per-song loop of main (search, merge, rank,  *)
(* select, download, log) and the pure helpers it uses.                    *)
(*                                                                         *)
(* Python strings that the code inspects character by character (titles    *)
(* given to sanitize_song_name, file lines given to special_song_name,     *)
(* operator input given to match/int) are sequences of one-character       *)
(* strings.  Python's None is the value None below when it stands where a  *)
(* character sequence may stand, and the string "None" when it stands      *)
(* where an opaque string (a link, a header) may stand.                    *)
(***************************************************************************)
EXTENDS Integers, Sequences, FiniteSets, TLC

\* ------------------------------------------------------------- bounds
MaxSongs == 2        \* wanted songs in a run
MaxRows == 2         \* rows on the result page of the display query
MaxFallbackRows == 1 \* rows on the result page of the fallback query
MaxInputLen == 2     \* characters the operator types at one prompt
MaxLen == 3          \* characters of a title given to sanitize_song_name

\* ------------------------------------------------------------- values
None == <<"None">>
TypeError == <<"TypeError">>

Digits == {"0", "1", "2", "3", "4", "5", "6", "7", "8", "9"}
Whitespace == {" "}

Range(s) == {s[k] : k \in 1..Len(s)}

SeqsUpTo(S, m) == UNION {[1..k -> S] : k \in 0..m}

\* Python truthiness of a value that is None or a string
Truthy(x) == x # None /\ x # <<>>

\* str.strip()
RECURSIVE LStrip(_)
LStrip(s) == IF s # <<>> /\ Head(s) \in Whitespace THEN LStrip(Tail(s)) ELSE s

RECURSIVE RStrip(_)
RStrip(s) ==
    IF s # <<>> /\ s[Len(s)] \in Whitespace THEN RStrip(SubSeq(s, 1, Len(s) - 1)) ELSE s

strip(s) == RStrip(LStrip(s))

\* ------------------------------------------------ sanitize_song_name
\* the characters the class [^\(,\-\[\.] excludes
Boundary == {"(", ",", "-", "[", "."}

\* length of the longest prefix of s without a boundary character
RECURSIVE LeadingRun(_)
LeadingRun(s) ==
    IF s = <<>> \/ Head(s) \in Boundary THEN 0 ELSE 1 + LeadingRun(Tail(s))

\* (m := search(r"^([^\(,\-\[\.]+)", name)) and m.group(1).strip()
\* re.search raises TypeError on None; the + needs one character, else the
\* match object is None and `and` returns it.
sanitize_song_name(name) ==
    IF name = None \/ name = TypeError THEN TypeError
    ELSE IF LeadingRun(name) = 0 THEN None
    ELSE strip(SubSeq(name, 1, LeadingRun(name)))

\* ------------------------------------------------- special_song_name
AllIn(s, S) == \A k \in 1..Len(s) : s[k] \in S

\* rest matches (\-\d+)\s*$ with d digits
SuffixWith(rest, d) ==
    /\ d >= 1
    /\ Len(rest) >= 1 + d
    /\ rest[1] = "-"
    /\ AllIn(SubSeq(rest, 2, 1 + d), Digits)
    /\ AllIn(SubSeq(rest, 2 + d, Len(rest)), Whitespace)

\* rest matches (\-\d+)?\s*$
RestMatches(rest) ==
    \/ AllIn(rest, Whitespace)
    \/ \E d \in 1..Len(rest) : SuffixWith(rest, d)

\* search(r"(.+?)(\-\d+)?\s*$", lines): group 1 is lazy, so it is the
\* shortest non-empty prefix after which the rest matches; group 2 is
\* greedy, so it takes part when it can.
special_song_name(lines) ==
    LET L == Len(lines)
        ps == {p \in 1..L : RestMatches(SubSeq(lines, p + 1, L))}
    IN  IF ps = {} THEN <<None, lines>>
        ELSE LET p == CHOOSE q \in ps : \A r \in ps : q <= r
                 rest == SubSeq(lines, p + 1, L)
                 ds == {d \in 1..Len(rest) : SuffixWith(rest, d)}
             IN  IF ds = {} THEN <<None, lines>>
                 ELSE LET d == CHOOSE e \in ds : TRUE
                      IN  <<SubSeq(rest, 2, 1 + d), strip(SubSeq(lines, 1, p))>>

\* ---------------------------------------------------- match and int
\* match(r"\d+", n): a digit at the start is enough
match_digits(n) == n # <<>> /\ Head(n) \in Digits

DigitValue(c) ==
    CASE c = "0" -> 0 [] c = "1" -> 1 [] c = "2" -> 2 [] c = "3" -> 3
      [] c = "4" -> 4 [] c = "5" -> 5 [] c = "6" -> 6 [] c = "7" -> 7
      [] c = "8" -> 8 [] c = "9" -> 9

RECURSIVE DecimalValue(_)
DecimalValue(s) ==
    IF s = <<>> THEN 0
    ELSE 10 * DecimalValue(SubSeq(s, 1, Len(s) - 1)) + DigitValue(s[Len(s)])

\* int(n) raises ValueError unless the stripped text is decimal digits
int_raises(n) == strip(n) = <<>> \/ ~AllIn(strip(n), Digits)

int(n) == DecimalValue(strip(n))

\* ------------------------------------------------------------ get_info
\* A result row as the page parser exposes it.  widget: the row holds a
\* widget/small-2/subfooter-menu-holder div; header, time, href: "None"
\* when the element (or attribute) is missing; stats: the integers of all
\* post-stat spans, the first (plays) included; mapper: the first word of
\* the mapper block after its newlines, "None" when the block is missing.
Row(w, h, ds, st, m, t, l) ==
    [widget |-> w, header |-> h, diffs |-> ds, stats |-> st,
     mapper |-> m, time |-> t, href |-> l]

trunc_difficulty(difficulty) ==
    CASE difficulty = "Easy" -> "Ea"
      [] difficulty = "Normal" -> "No"
      [] difficulty = "Hard" -> "Ha"
      [] difficulty = "Expert" -> "Ex"
      [] difficulty = "Expert+" -> "Ex+"
      [] difficulty = "Standard" -> "St"
      [] difficulty = "Advanced" -> "Ad"
      [] OTHER -> difficulty

Returns(v) == [exc |-> "", val |-> v]
Raises(e) == [exc |-> e, val |-> None]

\* (title, difficulties, upvote, downvote, mapper, date, dwn_link), None
\* for a widget row, or the exception the row makes get_info raise.  The
\* ", ".join of the difficulty labels is kept as the sequence of labels.
get_info(row) ==
    LET stats == IF row.stats = <<>> THEN <<>> ELSE Tail(row.stats)
    IN  IF row.widget THEN Returns(None)
        ELSE IF row.header = "None" THEN Raises("AttributeError")
        ELSE IF stats # <<>> /\ Len(stats) # 2 THEN Raises("ValueError")
        ELSE IF row.mapper = "None" THEN Raises("AttributeError")
        ELSE IF row.time = "None" THEN Raises("AttributeError")
        ELSE Returns(<<row.header,
                       [k \in 1..Len(row.diffs) |-> trunc_difficulty(row.diffs[k])],
                       IF stats = <<>> THEN 0 ELSE stats[1],
                       IF stats = <<>> THEN 0 ELSE stats[2],
                       row.mapper, row.time, row.href>>)

\* candidate fields, by their position in the tuple
title(c) == c[1]
upvote(c) == c[3]
downvote(c) == c[4]
dwn_link(c) == c[7]

\* -------------------------------------------------------- search_songs
\* What one request of the search page gives: the transport fails, or a
\* page of rows arrives.
Page(net, rows) == [net |-> net, rows |-> rows]

RECURSIVE ParseRows(_)
ParseRows(rows) ==
    IF rows = <<>> THEN Returns(<<>>)
    ELSE LET i == get_info(Head(rows))
             rest == ParseRows(Tail(rows))
         IN  IF i.exc # "" THEN i
             ELSE IF rest.exc # "" THEN rest
             ELSE IF i.val = None THEN rest
             ELSE Returns(<<i.val>> \o rest.val)

search_songs(page) ==
    IF page.net # "ok" THEN Raises("ConnectionError") ELSE ParseRows(page.rows)

\* combine_search with candidates of one title taken as equal
combine_search_by_title(A, B) ==
    {c \in Range(A \o B) :
        c = CHOOSE d \in Range(A \o B) : d[1] = c[1]}

\* ------------------------------------------------------ combine_search
\* set(sum(songs_list, start=[])): the distinct tuples of both lists
combine_search(A, B) == Range(A \o B)

\* list(a set): its elements once each, in an order the hashes decide
ListsOf(S) == {s \in [1..Cardinality(S) -> S] : Range(s) = S}

\* --------------------------------------------------------------- sorted
\* key = -x[2] / (x[3] + 0.01); the two keys are compared exactly, as
\* fractions with denominators 100 * downvote + 1
KeyLess(x, y) ==
    upvote(x) * (100 * downvote(y) + 1) > upvote(y) * (100 * downvote(x) + 1)

\* sorted() is stable: x goes behind every element whose key is not larger
RECURSIVE InsertByKey(_, _)
InsertByKey(s, x) ==
    IF s = <<>> THEN <<x>>
    ELSE IF KeyLess(x, Head(s)) THEN <<x>> \o s
    ELSE <<Head(s)>> \o InsertByKey(Tail(s), x)

RECURSIVE sorted(_)
sorted(s) ==
    IF s = <<>> THEN <<>>
    ELSE InsertByKey(sorted(SubSeq(s, 1, Len(s) - 1)), s[Len(s)])

\* ------------------------------------------------------- main: helpers
\* f"{x}": the text of None is "None"
str(x) == IF x = None THEN <<"N", "o", "n", "e">> ELSE x

\* `not link` for a link that is None or a string
NoLinkGiven(link) == link = "None" \/ link = ""

\* path.join(path_to_folder, playlist_name, song_name) + ".zip": one path
\* per title inside the playlist folder
filename_of(song_name) == <<"playlist", song_name, ".zip">>

\* path.exists(filename)
path_exists(fs, filename) == filename \in fs

\* write_file with the archive written somewhere else
write_file_elsewhere(fs, filename) == fs \cup {<<"playlist", ".zip">>}

\* open(filename, "wb").write(zip_song.content)
write_file(fs, filename) == fs \cup {filename}

\* open(<playlist>.log, "a+").write(f"{song_name}\n")
log_write(lg, song_name) == Append(lg, song_name)

\* AutoChoice with the ordinal of the line ignored
AutoChoice_first(number) == <<"1">>

\* n = number or 1 (the integer 1 is written as the text int() reads as 1)
AutoChoice(number) == IF Truthy(number) THEN number ELSE <<"1">>

\* ------------------------------------------------------ main: the inputs
RowA == Row(FALSE, "t1", <<"Expert">>, <<1203, 10, 0>>, "m1", "d1", "L1")
RowB == Row(FALSE, "t1", <<"Hard", "Expert+">>, <<900, 5, 1>>, "m2", "d2", "None")
RowC == Row(FALSE, "t2", <<"Expert">>, <<77, 5, 1>>, "m1", "d2", "L3")
RowWidget == Row(TRUE, "None", <<>>, <<>>, "None", "None", "None")
RowNoTime == Row(FALSE, "t2", <<"Easy">>, <<>>, "m1", "None", "L2")

Rows == {RowA, RowB, RowC, RowWidget, RowNoTime}

PagesUpTo(m) == {Page("ok", rs) : rs \in SeqsUpTo(Rows, m)} \cup {Page("down", <<>>)}

\* lines of a songs file (or the text of --song)
FileLines == { <<"a">>, <<"a", "-", "0">>, <<"a", " ", "-", "2", " ">> }

\* names of the tracks of a Spotify playlist; the artist is "b"
TrackNames == { <<"a", "(", "x">>, <<"(", "x">> }

FileSong(lines) ==
    <<special_song_name(lines)[1], special_song_name(lines)[2], None>>

SpotifySong(name) ==
    <<None, str(sanitize_song_name(name)) \o <<" ", "b">>, sanitize_song_name(name)>>

WantedSongs == {FileSong(l) : l \in FileLines} \cup {SpotifySong(t) : t \in TrackNames}

SongLists ==
    UNION { [1..k -> {FileSong(l) : l \in FileLines}]
            \cup [1..k -> {SpotifySong(t) : t \in TrackNames}] : k \in 1..MaxSongs }

\* what the operator may type at a prompt
InputChars == {"0", "1", "a"}
Inputs == SeqsUpTo(InputChars, MaxInputLen)

\* ----------------------------------------------------------- the state
VARIABLES
    automatic,        \* auto of retrieve_params
    test,             \* test of retrieve_params (DryRun)
    songs_to_search,  \* the (number, song_more, song_less) triples the for
                      \* loop of line 259 has not finished: the current one
                      \* and those behind it
    pc,               \* "search", "select", "acquire", "done", "crashed"
    error,            \* the exception that ended the run, and where it rose
    keep_found,       \* an observer's switch, not program state: whether
                      \* found is recorded
    found,            \* the results of the searches of the current song
    bsaber_songs,     \* the ranked candidates of the current song
    asked,            \* input() was called for the current song
    selected_song,    \* line 279
    files,            \* the archive paths that exist
    logfile,          \* the lines this run appended to <playlist>.log
    log_exists,       \* <playlist>.log exists
    acq,              \* the passes through lines 279-295 so far, each with
                      \* its candidate, its outcome and its effects
    gets,             \* the links given to get() by download_song so far
    report,           \* the last final spinner message of a song
    track_name,       \* a title given to sanitize_song_name
    once,             \* sanitize_song_name(track_name)
    twice,            \* sanitize_song_name(once)
    applied           \* how many of the two were computed

vars == <<automatic, test, songs_to_search, pc, error, keep_found, found, bsaber_songs,
          asked, selected_song, files, logfile, log_exists, acq, gets, report,
          track_name, once, twice, applied>>

config == <<automatic, test, keep_found>>
canon == <<track_name, once, twice, applied>>

NoError == [exc |-> "", at |-> ""]

Init ==
    /\ automatic \in BOOLEAN
    /\ test \in BOOLEAN
    /\ songs_to_search \in SongLists
    /\ pc = "search"
    /\ error = NoError
    /\ keep_found = FALSE
    /\ found = <<>>
    /\ bsaber_songs = <<>>
    /\ asked = FALSE
    /\ selected_song = None
    /\ files \in {{}, {filename_of("t1")}}
    /\ logfile = <<>>
    /\ log_exists = FALSE
    /\ acq = <<>>
    /\ gets = <<>>
    /\ report = ""
    /\ track_name = <<>>
    /\ once = <<>>
    /\ twice = <<>>
    /\ applied = 0

song == Head(songs_to_search)
number == song[1]
song_less == song[3]

\* an uncaught exception leaves main
Crash(exc, at) ==
    /\ pc' = "crashed"
    /\ error' = [exc |-> exc, at |-> at]

\* the for loop goes on to the next wanted song (the locals of the last
\* one are dead: they are written before they are read again)
NextSong ==
    /\ songs_to_search' = Tail(songs_to_search)
    /\ pc' = IF Tail(songs_to_search) = <<>> THEN "done" ELSE "search"
    /\ error' = error
    /\ found' = <<>>
    /\ bsaber_songs' = <<>>
    /\ asked' = FALSE
    /\ selected_song' = None

\* ------------------------------------------------- lines 260-265, 299
\* what search_songs can give for the pages the site may answer with
SearchOutcomes == {search_songs(p) : p \in PagesUpTo(MaxRows)}

NoFallback == Returns(<<>>)

\* the same for search_songs(song_less), which is not called (and stands
\* as an empty result) when song_less is None or empty
FallbackSearched == {search_songs(p) : p \in PagesUpTo(MaxFallbackRows)}
FallbackOutcomes ==
    IF pc = "search" /\ Truthy(song_less) THEN FallbackSearched ELSE {NoFallback}

\* the candidates of the current song before they are sorted: the first
\* result, or the list of the set of both results
Merged(A, B) ==
    IF Truthy(song_less) THEN ListsOf(combine_search(A, B)) ELSE {A}

\* A, B: the outcomes of search_songs(song_more), search_songs(song_less)
Searching(A, B) == pc = "search"

\* search_songs raises: nothing in main catches it
SearchFails(A, B) ==
    /\ Searching(A, B)
    /\ A.exc # "" \/ B.exc # ""
    /\ Crash(IF A.exc # "" THEN A.exc ELSE B.exc, "search_songs")
    /\ UNCHANGED <<config, songs_to_search, found, bsaber_songs, asked, selected_song, files,
                   logfile, log_exists, acq, gets, report, canon>>

\* `if bsaber_songs` is false: "No song found for ..."
NoSongFound(A, B) ==
    /\ Searching(A, B)
    /\ A.exc = "" /\ B.exc = ""
    /\ \E merged \in Merged(A.val, B.val) : merged = <<>>
    /\ report' = "NotFound"
    /\ NextSong
    /\ UNCHANGED <<config, files, logfile, log_exists, acq, gets, canon>>

\* `if bsaber_songs` is true: the candidates are sorted
SongsFound(A, B) ==
    /\ Searching(A, B)
    /\ A.exc = "" /\ B.exc = ""
    /\ \E merged \in Merged(A.val, B.val) :
         /\ merged # <<>>
         /\ bsaber_songs' = sorted(merged)
    /\ found' = IF keep_found THEN <<A.val, B.val>> ELSE found
    /\ pc' = "select"
    /\ UNCHANGED <<config, songs_to_search, error, asked, selected_song, files, logfile,
                   log_exists, acq, gets, report, canon>>

\* ------------------------------------------------------- lines 266-279
\* `if int(n)` and bsaber_songs[int(n) - 1]
Decide(choice, prompted) ==
    IF int(choice) = 0
    THEN /\ report' = "Skipped"
         /\ NextSong
    ELSE IF int(choice) > Len(bsaber_songs)
    THEN /\ Crash("IndexError", "select")
         /\ asked' = prompted
         /\ UNCHANGED <<songs_to_search, found, bsaber_songs, selected_song, report>>
    ELSE /\ selected_song' = bsaber_songs[int(choice)]
         /\ pc' = "acquire"
         /\ asked' = prompted
         /\ UNCHANGED <<songs_to_search, error, found, bsaber_songs, report>>

\* automatic: n = number or 1
ChooseAuto ==
    /\ pc = "select"
    /\ automatic
    /\ Decide(AutoChoice(number), FALSE)
    /\ UNCHANGED <<config, files, logfile, log_exists, acq, gets, canon>>

\* not automatic: one input() and one evaluation of the while condition
Prompt(typed) ==
    /\ pc = "select"
    /\ ~automatic
    /\ asked' = TRUE
    /\ IF ~match_digits(typed)
       THEN UNCHANGED <<songs_to_search, pc, error, found, bsaber_songs, selected_song, report>>
       ELSE IF int_raises(typed)
       THEN /\ Crash("ValueError", "input")
            /\ UNCHANGED <<songs_to_search, found, bsaber_songs, selected_song, report>>
       ELSE /\ int(typed) \notin 0..Len(bsaber_songs)
            /\ UNCHANGED <<songs_to_search, pc, error, found, bsaber_songs, selected_song, report>>
    /\ UNCHANGED <<config, files, logfile, log_exists, acq, gets, canon>>

\* the while condition is false: the loop ends with the text typed
Chosen(typed) ==
    /\ pc = "select"
    /\ ~automatic
    /\ match_digits(typed)
    /\ ~int_raises(typed)
    /\ int(typed) \in 0..Len(bsaber_songs)
    /\ Decide(typed, TRUE)
    /\ UNCHANGED <<config, files, logfile, log_exists, acq, gets, canon>>

\* ------------------------------------------------- lines 280-295, 74-81
song_name == title(selected_song)
song_link == dwn_link(selected_song)
filename == filename_of(song_name)

\* AcquireBranch with the test of `test` left out
AcquireBranch_no_test(dry, exists) == IF ~exists THEN "download" ELSE "already"

\* if test / elif not path.exists(filename) / else
AcquireBranch(dry, exists) ==
    IF dry THEN "matched" ELSE IF ~exists THEN "download" ELSE "already"

Acquiring(branch) ==
    /\ pc = "acquire"
    /\ AcquireBranch(test, path_exists(files, filename)) = branch

\* the record of one pass through lines 279-295: the candidate, whether
\* its file was there before, how it ended, and what it did: the calls of
\* get(), whether its file is there afterwards, the lines added to the log
Acquired(outcome) ==
    Append(acq, [cand |-> selected_song,
                 existed |-> path_exists(files, filename),
                 outcome |-> outcome,
                 fetched |-> Len(gets') - Len(gets),
                 present |-> path_exists(files', filename),
                 appended |-> Len(logfile') - Len(logfile)])

\* lines 293-295, reached when nothing was raised before
Logged ==
    /\ logfile' = log_write(logfile, song_name)
    /\ log_exists' = TRUE

\* test: "Matched with ..."
Matched ==
    /\ Acquiring("matched")
    /\ report' = "Matched"
    /\ Logged
    /\ UNCHANGED <<config, files, gets, canon>>
    /\ acq' = Acquired("MatchedOnly")
    /\ NextSong

\* the file is there: "Already downloaded ..."
AlreadyDownloaded ==
    /\ Acquiring("already")
    /\ report' = "Already"
    /\ Logged
    /\ UNCHANGED <<config, files, gets, canon>>
    /\ acq' = Acquired("AlreadyPresent")
    /\ NextSong

\* download_song with a link: get() answers and the archive is written
DownloadOk ==
    /\ Acquiring("download")
    /\ ~NoLinkGiven(song_link)
    /\ gets' = Append(gets, song_link)
    /\ files' = write_file(files, filename)
    /\ report' = "Downloaded"
    /\ Logged
    /\ UNCHANGED <<config, canon>>
    /\ acq' = Acquired("Downloaded")
    /\ NextSong

\* download_song with a link: get() raises
DownloadFails ==
    /\ Acquiring("download")
    /\ ~NoLinkGiven(song_link)
    /\ gets' = Append(gets, song_link)
    /\ Crash("ConnectionError", "download_song")
    /\ UNCHANGED <<config, songs_to_search, found, bsaber_songs, asked, selected_song, files,
                   logfile, log_exists, report, canon>>
    /\ acq' = Acquired("Raised")

\* download_song without a link: "No link working for ..." and no return,
\* so get(link) is called all the same and raises MissingSchema
DownloadNoLink ==
    /\ Acquiring("download")
    /\ NoLinkGiven(song_link)
    /\ report' = "NoLink"
    /\ gets' = Append(gets, song_link)
    /\ Crash("MissingSchema", "download_song")
    /\ UNCHANGED <<config, songs_to_search, found, bsaber_songs, asked, selected_song, files,
                   logfile, log_exists, canon>>
    /\ acq' = Acquired("Raised")

Next ==
    \/ \E A \in SearchOutcomes, B \in FallbackOutcomes : SearchFails(A, B)
    \/ \E A \in SearchOutcomes, B \in FallbackOutcomes : NoSongFound(A, B)
    \/ \E A \in SearchOutcomes, B \in FallbackOutcomes : SongsFound(A, B)
    \/ ChooseAuto
    \/ \E typed \in Inputs : Prompt(typed)
    \/ \E typed \in Inputs : Chosen(typed)
    \/ Matched
    \/ AlreadyDownloaded
    \/ DownloadOk
    \/ DownloadFails
    \/ DownloadNoLink

Spec == Init /\ [][Next]_vars

\* ------------------------------------------- one wanted song, observed
\* A run for one wanted song in which the results of its searches are kept
\* beside the ranked list made of them.
InitOneSong ==
    /\ automatic \in BOOLEAN
    /\ test \in BOOLEAN
    /\ songs_to_search \in [1..1 -> WantedSongs]
    /\ pc = "search"
    /\ error = NoError
    /\ keep_found = TRUE
    /\ found = <<>>
    /\ bsaber_songs = <<>>
    /\ asked = FALSE
    /\ selected_song = None
    /\ files \in {{}, {filename_of("t1")}}
    /\ logfile = <<>>
    /\ log_exists = FALSE
    /\ acq = <<>>
    /\ gets = <<>>
    /\ report = ""
    /\ track_name = <<>>
    /\ once = <<>>
    /\ twice = <<>>
    /\ applied = 0

SpecOneSong == InitOneSong /\ [][Next]_vars

\* ------------------------------------ sanitize_song_name on its own
TitleChars == {"a", " ", "(", "-", "."}

InitCanon ==
    /\ automatic = TRUE
    /\ test = TRUE
    /\ songs_to_search = <<>>
    /\ pc = "done"
    /\ error = NoError
    /\ keep_found = FALSE
    /\ found = <<>>
    /\ bsaber_songs = <<>>
    /\ asked = FALSE
    /\ selected_song = None
    /\ files = {}
    /\ logfile = <<>>
    /\ log_exists = FALSE
    /\ acq = <<>>
    /\ gets = <<>>
    /\ report = ""
    /\ track_name \in SeqsUpTo(TitleChars, MaxLen)
    /\ once = <<>>
    /\ twice = <<>>
    /\ applied = 0

run == <<automatic, test, songs_to_search, pc, error, keep_found, found, bsaber_songs,
         asked, selected_song, files, logfile, log_exists, acq, gets, report>>

ApplyOnce ==
    /\ applied = 0
    /\ once' = sanitize_song_name(track_name)
    /\ applied' = 1
    /\ UNCHANGED <<run, track_name, twice>>

ApplyTwice ==
    /\ applied = 1
    /\ twice' = sanitize_song_name(once)
    /\ applied' = 2
    /\ UNCHANGED <<run, track_name, once>>

NextCanon == ApplyOnce \/ ApplyTwice

SpecCanon == InitCanon /\ [][NextCanon]_vars

\* =============================================================== claims
Count(s, x) == Cardinality({k \in 1..Len(s) : s[k] = x})

Calls == 1..Len(acq)

\* the run stands between two songs, or has ended
AtSongBoundary == pc \in {"search", "done", "crashed"}

\* calls i and i + 1 acquire one candidate with a link, outside DryRun,
\* and no file was at its path before call i
TwiceInARow(i) ==
    /\ i + 1 \in Calls
    /\ ~test
    /\ acq[i].cand = acq[i + 1].cand
    /\ ~NoLinkGiven(dwn_link(acq[i].cand))
    /\ ~acq[i].existed

\* C1 (as stated): two acquisitions in a row of one candidate with a link,
\* starting without its file, end Downloaded then AlreadyPresent, the second
\* without a transfer, and both together append one line to the log.
C1_LoggedOnce ==
    \A i \in Calls :
        TwiceInARow(i) =>
            /\ acq[i].outcome = "Downloaded"
            /\ acq[i + 1].outcome = "AlreadyPresent"
            /\ acq[i + 1].fetched = 0
            /\ acq[i].appended + acq[i + 1].appended = 1

\* C1 (amended): two acquisitions in a row of one candidate with a link,
\* starting without its file, end Downloaded then AlreadyPresent, the second
\* without a transfer, and each of the two appends the title to the log: two
\* lines together.
C1_LoggedByEachCall ==
    \A i \in Calls :
        TwiceInARow(i) =>
            /\ acq[i].outcome = "Downloaded"
            /\ acq[i].fetched = 1
            /\ acq[i + 1].outcome = "AlreadyPresent"
            /\ acq[i + 1].fetched = 0
            /\ acq[i].appended = 1
            /\ acq[i + 1].appended = 1
            /\ Count(logfile, title(acq[i].cand)) >= 2

C1_Witness == \E i \in Calls : TwiceInARow(i)

\* C2: a transport failure (while searching or downloading) or a malformed
\* result row never ends the run.
C2_FailuresStayInTheSong ==
    ~(pc = "crashed" /\ (error.at = "search_songs" \/ error.exc = "ConnectionError"))

\* C3: outside DryRun, acquiring a candidate without a link whose file is not
\* there ends as NoLink (a reported failure of the song, nothing raised):
\* get() is not called, no file appears at the path and no line is added to
\* the log.
C3_NoLinkIsAnOutcome ==
    \A i \in Calls :
        (~test /\ NoLinkGiven(dwn_link(acq[i].cand)) /\ ~acq[i].existed) =>
            /\ acq[i].outcome = "NoLink"
            /\ acq[i].fetched = 0
            /\ ~acq[i].present
            /\ acq[i].appended = 0

\* C4 (as stated): under DryRun no file is ever created, get() is never
\* called and every acquisition ends MatchedOnly.
C4_DryRunCreatesNoFile ==
    test =>
        /\ ~log_exists
        /\ gets = <<>>
        /\ \A i \in Calls : acq[i].outcome = "MatchedOnly" /\ acq[i].present = acq[i].existed

\* C4 (amended): under DryRun no archive file is ever created, get() is never
\* called and every acquisition ends MatchedOnly; the log file is still
\* written: each acquisition appends its title, creating the file if needed.
C4_DryRunCreatesNoArchive ==
    test =>
        /\ gets = <<>>
        /\ \A i \in Calls :
             /\ acq[i].outcome = "MatchedOnly"
             /\ acq[i].present = acq[i].existed
             /\ acq[i].fetched = 0
             /\ acq[i].appended = 1
        /\ acq # <<>> => log_exists

C4_Witness ==
    /\ test
    /\ \E i \in Calls : i + 1 \in Calls /\ acq[i].cand = acq[i + 1].cand /\ ~acq[i].existed

\* C5: in Interactive mode no operator input ends the run: an input that is
\* not an integer in [0, N] only leads to another prompt.
C5_NoInputEndsTheRun ==
    ~automatic => ~(pc = "crashed" /\ error.at \in {"input", "select"})

\* descending by upvotes / (downvotes + 0.01)
RatioAtLeast(c, d) ==
    upvote(c) * (100 * downvote(d) + 1) >= upvote(d) * (100 * downvote(c) + 1)

RankedDescending(s) ==
    \A i \in 1..Len(s) : \A j \in i..Len(s) : RatioAtLeast(s[i], s[j])

\* s holds the merged candidates of the searches A and B of the song: those
\* of A when there is no fallback query, else each candidate of A or B once
HoldsMerged(s, A, B, fallback) ==
    IF fallback
    THEN \A c \in Range(s) \cup Range(A) \cup Range(B) :
            Count(s, c) = IF c \in Range(A) \cup Range(B) THEN 1 ELSE 0
    ELSE \A c \in Range(s) \cup Range(A) : Count(s, c) = Count(A, c)

\* the position Auto mode is to select for the current song
Preselected == IF number = None THEN 1 ELSE int(number)

\* the current song has candidates and is past the selection step
PastSelection == bsaber_songs # <<>> /\ pc # "select"

\* C6: in Auto mode, with N >= 1 merged candidates and the position k (the
\* ordinal of the song, else 1) in 1..N, the selected candidate is the k-th of
\* the merged candidates in descending order of upvotes / (downvotes + 0.01),
\* and no input is requested.
C6_AutoSelectsRanked ==
    (automatic /\ PastSelection /\ Preselected \in 1..Len(bsaber_songs)) =>
        /\ RankedDescending(bsaber_songs)
        /\ HoldsMerged(bsaber_songs, found[1], found[2], Truthy(song_less))
        /\ selected_song = bsaber_songs[Preselected]
        /\ ~asked

C6_Witness ==
    /\ automatic
    /\ pc = "acquire"
    /\ number # None
    /\ Preselected = 2
    /\ selected_song # bsaber_songs[1]

\* C7: between songs and at the end of the run, the lines this run appended
\* to the log are the titles of the candidates selected so far, in order,
\* one per selected song; a song that is not found or skipped selects
\* nothing, so it adds no line and no download.
C7_LogIsTheSelectedTitles ==
    AtSongBoundary =>
        /\ logfile = [i \in Calls |-> title(acq[i].cand)]
        /\ Len(gets) <= Len(acq)

\* C8: with a fallback query, the merged result holds every candidate of
\* either search result once, so its length is the number of distinct
\* candidates (tuples) of the two results.
C8_MergedOnceEach ==
    (found # <<>> /\ Truthy(song_less)) =>
        /\ \A c \in Range(found[1]) \cup Range(found[2]) : Count(bsaber_songs, c) = 1
        /\ Len(bsaber_songs) = Cardinality(Range(found[1]) \cup Range(found[2]))

\* both results hold one candidate, and one of them another of the same title
C8_Witness ==
    /\ found # <<>>
    /\ Truthy(song_less)
    /\ Range(found[1]) \cap Range(found[2]) # {}
    /\ \E c, d \in Range(found[1]) \cup Range(found[2]) : c # d /\ title(c) = title(d)
    /\ Len(bsaber_songs) = 2

\* C9: sanitize_song_name gives a string for every string, and applying it
\* to its result gives the result again.
C9_CanonIdempotent ==
    /\ applied >= 1 => once # None
    /\ applied = 2 => twice = once

\* C10: in Auto mode a song with candidates is never skipped and the
\* selection never ends the run, whatever ordinal its line carries.
C10_AutoAlwaysSelects ==
    automatic => report # "Skipped" /\ ~(pc = "crashed" /\ error.at = "select")

====
